---- MODULE Spec2Model ----
(***************************************************************************)
(* Model of the appointment admission flow of fiap-health-med:             *)
(*   appointment_service  AppointmentService.create_appointment and        *)
(*                        DynamoDBAppointmentRepository                    *)
(*   availability_service AvailabilityRepository and its HTTP endpoint     *)
(* A create_appointment request is split at its three external calls (the  *)
(* availability GET, the appointment query, the conditional put), which    *)
(* are the points where requests served by different workers interleave.   *)
(***************************************************************************)
EXTENDS Integers, Sequences, FiniteSets, TLC

\* ------------------------------------------------------------------ bounds
\* number of create_appointment requests of one behaviour
MaxReq == 2
\* number of distinct values uuid4() can return
NumIds == 2
\* number of availability-management calls of one behaviour
MaxAvailOps == 2

\* ------------------------------------------------------------- constants
\* the hard-coded minimum gap, appointment_service.py line 56
MinGapSeconds == 3600
SecondsPerDay == 24 * 60 * 60

Abs(x) == IF x < 0 THEN 0 - x ELSE x

\* a time of day "HH:MM", in seconds since midnight
HM(h, m) == h * 3600 + m * 60

Procs == 1 .. MaxReq
Ids == 1 .. NumIds
Patients == {"p1"}

None == [none |-> TRUE]

\* ------------------------------------------------------- date-time strings
\* A date_time string is modelled by its three parts: the date (first 10
\* characters), the separator after it, and the time of day.  sep = " " is
\* "2024-01-10 09:00:00", sep = "T" is "2024-01-10T09:00:00", and sep = "x"
\* stands for a string that datetime.fromisoformat refuses.  Dates are day
\* numbers: 10 is 2024-01-10 and 11 is 2024-01-11.
MkDateTime(d, s, t) == [date |-> d, sep |-> s, time |-> t]

\* the date_time strings requests are drawn from: the space form at every
\* time of day the windows below make interesting, the "T" form at three of
\* them, and one malformed string
DateTimeInputs ==
    {MkDateTime(10, " ", t) :
        t \in {HM(9, 0), HM(9, 30), HM(10, 0), HM(12, 0), HM(23, 30)}}
    \cup {MkDateTime(11, " ", HM(0, 15))}
    \cup {MkDateTime(10, "T", t) : t \in {HM(9, 0), HM(9, 30), HM(13, 0)}}
    \cup {MkDateTime(10, "x", HM(9, 0))}

\* date_time.split(" ")[0]: the characters before the first space, which is
\* the date for the space form and the whole string for any other form
SplitSpaceFirst(dt) ==
    IF dt.sep = " " THEN <<dt.date>> ELSE <<dt.date, dt.sep, dt.time>>

\* s[0:10] of a string that starts with a 10-character date
First10(s) == s[1]

\* datetime.fromisoformat(date_time): does it raise ValueError
IsoParses(dt) == dt.sep # "x"

\* datetime.fromisoformat(date_time), as seconds since day 0
FromIsoFormat(dt) == dt.date * SecondsPerDay + dt.time

\* datetime.fromisoformat(date_time).time()
TimeOf(dt) == dt.time

\* ------------------------------------------------------------ availability
\* the windows doctors register: pairs <<start_time, end_time>> of "HH:MM"
SlotA == <<HM(9, 0), HM(12, 0)>>
SlotE == <<HM(23, 0), HM(23, 59)>>
SlotD == <<HM(0, 0), HM(23, 59)>>

\* the DailyAvailability values add_availability is called with
AvailabilityInputs ==
    {[doctor_email |-> "d1", day |-> 10, time_slots |-> <<SlotA>>],
     [doctor_email |-> "d1", day |-> 10, time_slots |-> <<SlotE, SlotA>>],
     [doctor_email |-> "d1", day |-> 11, time_slots |-> <<SlotD>>],
     [doctor_email |-> "d2", day |-> 10, time_slots |-> <<SlotA>>]}

\* an item of the availability table; its key is doctor_email and
\* day_time_slot = day#kstart-kend
AvailItem(doc, day, ks, ke, st, en) ==
    [doctor_email |-> doc, day |-> day, kstart |-> ks, kend |-> ke,
     start_time |-> st, end_time |-> en]

SameAvailKey(a, b) ==
    /\ a.doctor_email = b.doctor_email
    /\ a.day = b.day
    /\ a.kstart = b.kstart
    /\ a.kend = b.kend

\* availability_table.put_item(Item=item): replaces the item of the same key
AvailPut(table, item) == {x \in table : ~SameAvailKey(x, item)} \cup {item}

\* availability_table.delete_item(Key=...)
AvailDelete(table, doc, day, ks, ke) ==
    {x \in table :
        ~(x.doctor_email = doc /\ x.day = day /\ x.kstart = ks /\ x.kend = ke)}

\* the first n put_item calls of add_availability's loop
RECURSIVE AddSlots(_, _, _, _, _)
AddSlots(table, doc, day, slots, n) ==
    IF n = 0 THEN table
    ELSE AvailPut(AddSlots(table, doc, day, slots, n - 1),
                  AvailItem(doc, day, slots[n][1], slots[n][2],
                            slots[n][1], slots[n][2]))

\* AvailabilityRepository.get_doctor_availability: the mapping day -> slots,
\* as the set of the (day, start_time, end_time) it lists; {} on ClientError
GetDoctorAvailability(table, doc, clientError) ==
    IF clientError THEN {}
    ELSE {[day |-> x.day, start_time |-> x.start_time, end_time |-> x.end_time] :
            x \in {y \in table : y.doctor_email = doc}}

\* ------------------------------------------------------ check_availability
MsgFetchStatus == "Failed to check availability"
MsgDateUnavailable == "Selected date is not available"
MsgTimeUnavailable == "Selected time is not available"
MsgAvailable == "Time is available"
MsgFetchError == "Error while checking availability"
MsgUnexpected == "Unexpected error while checking availability"
MsgConflict == "Appointment time conflicts with an existing appointment within 1 hour"
MsgCreateFailed == "Failed to create appointment"
MsgCreated == "Appointment created successfully"

Result(ok, msg) == [success |-> ok, message |-> msg]

\* the outcomes of requests.get: an exception, or a status and a body.
\* table_error notes that the availability service built the body after a
\* ClientError of its table; the appointment service cannot see it
HttpException == [kind |-> "exception"]
HttpResponse(status, body, tableError) ==
    [kind |-> "response", status |-> status, body |-> body,
     table_error |-> tableError]

\* the test of one slot with the end of the window included
SlotMatchesClosed(slot, t) == slot.start_time <= t /\ t <= slot.end_time

\* the half-open test of one slot, lines 121-123
SlotMatches(slot, t) == slot.start_time <= t /\ t < slot.end_time

\* check_availability reading a missing date as an empty list of slots
CheckAvailabilityNoDateTest(date_time, response) ==
    IF response.kind = "exception" THEN Result(FALSE, MsgFetchError)
    ELSE IF response.status # 200 THEN Result(FALSE, MsgFetchStatus)
    ELSE IF ~IsoParses(date_time) THEN Result(FALSE, MsgUnexpected)
    ELSE LET date_part == First10(SplitSpaceFirst(date_time))
             slots == {s \in response.body : s.day = date_part}
         IN  IF \E s \in slots : SlotMatches(s, TimeOf(date_time))
             THEN Result(TRUE, MsgAvailable)
             ELSE Result(FALSE, MsgTimeUnavailable)

\* check_availability testing the slots of every date, not of date_part
CheckAvailabilityAnyDate(date_time, response) ==
    IF response.kind = "exception" THEN Result(FALSE, MsgFetchError)
    ELSE IF response.status # 200 THEN Result(FALSE, MsgFetchStatus)
    ELSE IF ~IsoParses(date_time) THEN Result(FALSE, MsgUnexpected)
    ELSE IF response.body = {} THEN Result(FALSE, MsgDateUnavailable)
    ELSE IF \E s \in response.body : SlotMatches(s, TimeOf(date_time))
         THEN Result(TRUE, MsgAvailable)
         ELSE Result(FALSE, MsgTimeUnavailable)

\* AppointmentService.check_availability on the outcome of the GET
CheckAvailability(date_time, response) ==
    IF response.kind = "exception" THEN Result(FALSE, MsgFetchError)
    ELSE IF response.status # 200 THEN Result(FALSE, MsgFetchStatus)
    ELSE IF ~IsoParses(date_time) THEN Result(FALSE, MsgUnexpected)
    ELSE LET date_part == First10(SplitSpaceFirst(date_time))
             slots == {s \in response.body : s.day = date_part}
         IN  IF slots = {} THEN Result(FALSE, MsgDateUnavailable)
             ELSE IF \E s \in slots : SlotMatches(s, TimeOf(date_time))
                  THEN Result(TRUE, MsgAvailable)
                  ELSE Result(FALSE, MsgTimeUnavailable)

\* ------------------------------------------------------------ appointments
\* an item that keeps the date of the request and drops its time
ApptItemDateOnly(id, a) ==
    [id |-> id, doctor_email |-> a.doctor_email,
     patient_email |-> a.patient_email,
     date_time |-> MkDateTime(a.date_time.date, a.date_time.sep, 0)]

\* appointment.model_dump() with the id added (lines 69-70)
ApptItem(id, a) ==
    [id |-> id, doctor_email |-> a.doctor_email,
     patient_email |-> a.patient_email, date_time |-> a.date_time]

\* DynamoDBAppointmentRepository.get_doctor_appointments: [] on ClientError
RepoGetDoctorAppointments(table, doc, clientError) ==
    IF clientError THEN {} ELSE {x \in table : x.doctor_email = doc}

\* the conflict test without the absolute value
IsConflictingNoAbs(a, existing) ==
    \E appt \in existing :
        /\ SplitSpaceFirst(appt.date_time) = SplitSpaceFirst(a.date_time)
        /\ FromIsoFormat(appt.date_time) - FromIsoFormat(a.date_time) < 0

\* a conflict test on the distance alone, whatever the dates
IsConflictingAnyDate(a, existing) ==
    \E appt \in existing :
        Abs(FromIsoFormat(appt.date_time) - FromIsoFormat(a.date_time))
            < MinGapSeconds

\* the conflict test of create_appointment, lines 45-58
IsConflicting(a, existing) ==
    \E appt \in existing :
        /\ SplitSpaceFirst(appt.date_time) = SplitSpaceFirst(a.date_time)
        /\ Abs(FromIsoFormat(appt.date_time) - FromIsoFormat(a.date_time))
              < MinGapSeconds

\* a put without ConditionExpression
PutConditionNone(table, item) == TRUE

\* a put conditioned on the doctor's bookings as well as on the id
PutConditionCompound(table, item) ==
    /\ \A x \in table : x.id # item.id
    /\ \A x \in table :
          ~(/\ x.doctor_email = item.doctor_email
            /\ x.date_time.date = item.date_time.date
            /\ Abs(FromIsoFormat(x.date_time) - FromIsoFormat(item.date_time))
                  < MinGapSeconds)

\* date_time.split(" ")[1][:5]: the "HH:MM" after the first space, as minutes
\* of the day; defined for the space form only
SplitSpaceSecond5(dt) == dt.time \div 60

\* AppointmentService.get_doctor_appointments on the list the repository
\* returned: split(" ")[1] raises IndexError on an item without a space;
\* otherwise a mapping from date to its entries, here the number of entries
\* of each "HH:MM"
ServiceGetDoctorAppointments(appointments) ==
    IF \E x \in appointments : x.date_time.sep # " "
    THEN [raised |-> "IndexError"]
    ELSE [raised |-> "none",
          formatted |->
            [d \in {SplitSpaceFirst(x.date_time) : x \in appointments} |->
               [t \in {SplitSpaceSecond5(x.date_time) :
                          x \in {y \in appointments :
                                   SplitSpaceFirst(y.date_time) = d}} |->
                  Cardinality({x \in appointments :
                      /\ SplitSpaceFirst(x.date_time) = d
                      /\ SplitSpaceSecond5(x.date_time) = t})]]]

\* the condition of the put: attribute_not_exists(id)
PutCondition(table, item) == \A x \in table : x.id # item.id

\* appointment_table.put_item(Item=item): the key of the table is id, and a
\* put replaces the item of the same key
ApptPut(table, item) == {x \in table : x.id # item.id} \cup {item}

\* a put that is issued again after a ClientError and then goes through
RepoCreateAppointmentRetry(table, item, clientError) ==
    IF ~PutCondition(table, item) THEN [table |-> table, ok |-> FALSE]
    ELSE [table |-> ApptPut(table, item), ok |-> TRUE]

\* a put that stores the item and then reports the failure
RepoCreateAppointmentWriteThenFail(table, item, clientError) ==
    IF ~PutCondition(table, item) THEN [table |-> table, ok |-> FALSE]
    ELSE [table |-> ApptPut(table, item), ok |-> ~clientError]

\* DynamoDBAppointmentRepository.create_appointment: the table after the call
\* and the value returned
RepoCreateAppointment(table, item, clientError) ==
    IF clientError THEN [table |-> table, ok |-> FALSE]
    ELSE IF ~PutCondition(table, item) THEN [table |-> table, ok |-> FALSE]
    ELSE [table |-> ApptPut(table, item), ok |-> TRUE]

\* a create that reports failure when the e-mail could not be sent
CreateOutcomeMailDecides(ok, mail) ==
    IF ok /\ mail # "failed"
    THEN Result(TRUE, MsgCreated) ELSE Result(FALSE, MsgCreateFailed)

\* lines 74-89 of create_appointment: what is returned after the put, given
\* the repository's answer and the fate of the e-mail
CreateOutcome(ok, mail) ==
    IF ok THEN Result(TRUE, MsgCreated) ELSE Result(FALSE, MsgCreateFailed)

\* ------------------------------------------------------------------- state
VARIABLES
    availability_table,     \* the items of the availability table
    appointment_table,      \* the items of the appointments table
    avail_ops,              \* availability-management calls made so far
    pc,                     \* where each create_appointment request is
    appointment,            \* the request's Appointment, None before it starts
    appointment_id,         \* the uuid4 it drew at line 29, first used and
                            \* therefore set at line 70
    fetch,                  \* how its availability GET ended; the body it got
    existing_appointments,  \* the list its appointment query returned
    query_failed,           \* whether that query raised ClientError
    create_failed,          \* whether its put raised ClientError
    email,                  \* what became of its e-mail notification
    result,                 \* the (success, message) it returned
    avail_call,             \* the last call to the availability service's
                            \* API and the status it was answered with
    auth_table,             \* the items of the auth table
    tokens,                 \* the access tokens login has issued
    auth_ops,               \* calls to the auth service's API made so far
    guarded,                \* the calls behind get_current_user in flight
    auth_call               \* the last call to the auth service's API that
                            \* returned, and its answer

vars ==
    <<availability_table, appointment_table, avail_ops, pc, appointment,
      appointment_id, fetch, existing_appointments, query_failed,
      create_failed, email, result, avail_call,
      auth_table, tokens, auth_ops, guarded, auth_call>>

authvars == <<auth_table, tokens, auth_ops, guarded, auth_call>>

\* the calls behind get_current_user that can be in flight together
MaxGuarded == 2
GProcs == 1 .. MaxGuarded

reqvars ==
    <<pc, appointment, appointment_id, fetch, existing_appointments,
      query_failed, create_failed, email, result>>

Init ==
    /\ availability_table = {}
    /\ appointment_table = {}
    /\ avail_ops = 0
    /\ pc = [p \in Procs |-> "idle"]
    /\ appointment = [p \in Procs |-> None]
    /\ appointment_id = [p \in Procs |-> 0]
    /\ fetch = [p \in Procs |-> None]
    /\ existing_appointments = [p \in Procs |-> {}]
    /\ query_failed = [p \in Procs |-> FALSE]
    /\ create_failed = [p \in Procs |-> FALSE]
    /\ email = [p \in Procs |-> "none"]
    /\ result = [p \in Procs |-> None]
    /\ avail_call = None
    /\ auth_table = {}
    /\ tokens = {}
    /\ auth_ops = 0
    /\ guarded = [g \in GProcs |-> None]
    /\ auth_call = None

\* --------------------------------------------- availability management
\* AvailabilityRepository.add_availability: the loop stores the slots one by
\* one; a ClientError at slot stored+1 leaves the first `stored` in the table
add_availability(availability, stored) ==
    /\ avail_ops < MaxAvailOps
    /\ avail_ops' = avail_ops + 1
    /\ availability_table' =
          AddSlots(availability_table, availability.doctor_email,
                   availability.day, availability.time_slots, stored)
    /\ UNCHANGED <<avail_call, authvars>>
    /\ UNCHANGED <<appointment_table, reqvars>>

\* AvailabilityRepository.delete_availability
delete_availability(doc, day, slot, clientError) ==
    /\ avail_ops < MaxAvailOps
    /\ avail_ops' = avail_ops + 1
    /\ availability_table' =
          IF clientError THEN availability_table
          ELSE AvailDelete(availability_table, doc, day, slot[1], slot[2])
    /\ UNCHANGED <<avail_call, authvars>>
    /\ UNCHANGED <<appointment_table, reqvars>>

\* ------------------------------------------------------ create_appointment
\* the request arrives and the Appointment is bound
Receive(p, a) ==
    /\ pc[p] = "idle"
    /\ \A q \in Procs : q < p => pc[q] # "idle"
    /\ pc' = [pc EXCEPT ![p] = "check_availability"]
    /\ appointment' = [appointment EXCEPT ![p] = a]
    /\ UNCHANGED <<avail_call, authvars>>
    /\ UNCHANGED <<availability_table, appointment_table, avail_ops, fetch,
                   appointment_id, existing_appointments, query_failed,
                   create_failed, email, result>>

\* a request that goes on to the query whatever check_availability returned
DoCheckAvailabilityKeepGoing(p, response) ==
    /\ pc[p] = "check_availability"
    /\ fetch' = [fetch EXCEPT ![p] = response]
    /\ pc' = [pc EXCEPT ![p] = "query"]
    /\ UNCHANGED <<avail_call, authvars>>
    /\ UNCHANGED <<availability_table, appointment_table, avail_ops,
                   appointment, appointment_id, existing_appointments,
                   query_failed, create_failed, email, result>>

\* lines 32-37: the GET to the availability service and its evaluation
DoCheckAvailability(p, response) ==
    /\ pc[p] = "check_availability"
    /\ fetch' = [fetch EXCEPT ![p] = response]
    /\ LET r == CheckAvailability(appointment[p].date_time, response)
       IN  IF r.success
           THEN /\ pc' = [pc EXCEPT ![p] = "query"]
                /\ UNCHANGED result
           ELSE /\ pc' = [pc EXCEPT ![p] = "done"]
                /\ result' = [result EXCEPT ![p] = r]
    /\ UNCHANGED <<avail_call, authvars>>
    /\ UNCHANGED <<availability_table, appointment_table, avail_ops,
                   appointment, appointment_id, existing_appointments,
                   query_failed, create_failed, email>>

\* the responses the GET can bring: the availability service answers 200 with
\* the mapping read from its table ({} when the table query fails), or the
\* call ends in another status or in a RequestException
Responses(doc) ==
    {HttpException, HttpResponse(500, {}, FALSE)}
    \cup {HttpResponse(200, GetDoctorAvailability(availability_table, doc, ce), ce) :
            ce \in BOOLEAN}

\* lines 39-67: the appointment query and the conflict test
QueryAndCheckConflict(p, clientError) ==
    /\ pc[p] = "query"
    /\ LET existing == RepoGetDoctorAppointments(
                           appointment_table, appointment[p].doctor_email,
                           clientError)
       IN  /\ existing_appointments' = [existing_appointments EXCEPT ![p] = existing]
           /\ query_failed' = [query_failed EXCEPT ![p] = clientError]
           /\ IF IsConflicting(appointment[p], existing)
              THEN /\ pc' = [pc EXCEPT ![p] = "done"]
                   /\ result' = [result EXCEPT ![p] = Result(FALSE, MsgConflict)]
              ELSE /\ pc' = [pc EXCEPT ![p] = "create"]
                   /\ UNCHANGED result
    /\ UNCHANGED <<avail_call, authvars>>
    /\ UNCHANGED <<availability_table, appointment_table, avail_ops,
                   appointment, appointment_id, fetch, create_failed, email>>

\* lines 69-89: the conditional put, the notification and the return
CreateAndNotify(p, id, clientError, mail) ==
    /\ pc[p] = "create"
    /\ LET c == RepoCreateAppointment(
                    appointment_table, ApptItem(id, appointment[p]), clientError)
       IN  /\ appointment_table' = c.table
           /\ appointment_id' = [appointment_id EXCEPT ![p] = id]
           /\ create_failed' = [create_failed EXCEPT ![p] = clientError]
           /\ email' = [email EXCEPT ![p] = IF c.ok THEN mail ELSE "none"]
           /\ result' = [result EXCEPT ![p] = CreateOutcome(c.ok, mail)]
    /\ pc' = [pc EXCEPT ![p] = "done"]
    /\ UNCHANGED <<avail_call, authvars>>
    /\ UNCHANGED <<availability_table, avail_ops, appointment, fetch,
                   existing_appointments, query_failed>>

\* the Appointment values create_appointment is called with
Requests ==
    [doctor_email : {"d1"}, patient_email : Patients, date_time : DateTimeInputs]
    \cup [doctor_email : {"d2"}, patient_email : Patients,
          date_time : {MkDateTime(10, " ", HM(9, 0))}]

AddAvailability ==
    \E a \in AvailabilityInputs :
        \E stored \in 0 .. Len(a.time_slots) : add_availability(a, stored)

\* the AvailabilityDelete values delete_availability is called with
DeleteInputs ==
    UNION {{[doctor_email |-> a.doctor_email, day |-> a.day,
              slot |-> a.time_slots[i]] : i \in 1 .. Len(a.time_slots)} :
           a \in AvailabilityInputs}

DeleteAvailability ==
    \E d \in DeleteInputs, ce \in BOOLEAN :
        delete_availability(d.doctor_email, d.day, d.slot, ce)

Step(p) ==
    \/ /\ pc[p] = "check_availability"
       /\ \E r \in Responses(appointment[p].doctor_email) : DoCheckAvailability(p, r)
    \/ \E ce \in BOOLEAN : QueryAndCheckConflict(p, ce)
    \/ \E id \in Ids, ce \in BOOLEAN, mail \in {"disabled", "sent", "failed"} :
          CreateAndNotify(p, id, ce, mail)

\* requests of different workers interleave at their external calls
Next ==
    \/ AddAvailability
    \/ DeleteAvailability
    \/ \E p \in Procs, a \in Requests : Receive(p, a)
    \/ \E p \in Procs : Step(p)

Spec == Init /\ [][Next]_vars

\* one worker serving one request at a time: a request is received only
\* when every earlier one has returned
ReceiveSeq(p, a) ==
    /\ \A q \in Procs : pc[q] \in {"idle", "done"}
    /\ Receive(p, a)

NextSeq ==
    \/ AddAvailability
    \/ DeleteAvailability
    \/ \E p \in Procs, a \in Requests : ReceiveSeq(p, a)
    \/ \E p \in Procs : Step(p)

SpecSeq == Init /\ [][NextSeq]_vars

\* every call a request waits on returns (the GET, the query, the put and
\* the SMTP exchange answer or fail), so a request that can take its next
\* step does take it
SpecFair == Spec /\ \A p \in Procs : WF_vars(Step(p))

\* a handler that answers 200 whatever the service returned
ApiCreateAppointmentAlwaysOk(r) == [status |-> 200, message |-> r.message]

\* the POST /appointments/ handler: the service's pair becomes a 200 with the
\* message or an HTTPException 400 with the message as detail
ApiCreateAppointment(r) ==
    IF r.success
    THEN [status |-> 200, message |-> r.message]
    ELSE [status |-> 400, detail |-> r.message]

\* ------------------------------------------------------------ vocabulary
Started(p) == pc[p] # "idle"
Done(p) == pc[p] = "done"
Committed(p) == Done(p) /\ result[p].success
Rejected(p) == Done(p) /\ ~result[p].success
RejectedWith(p, msg) == Done(p) /\ result[p] = Result(FALSE, msg)

\* the request got past check_availability
PassedAvailability(p) ==
    \/ pc[p] \in {"query", "create"}
    \/ Done(p) /\ result[p].message \in {MsgConflict, MsgCreateFailed, MsgCreated}

\* the request issued its put
IssuedCreate(p) ==
    Done(p) /\ result[p].message \in {MsgCreateFailed, MsgCreated}

\* the GET of the request was answered 200 with a mapping
Fetched(p) ==
    /\ Started(p)
    /\ fetch[p] # None
    /\ fetch[p].kind = "response"
    /\ fetch[p].status = 200

\* the windows the fetched mapping lists under the request's date
WindowsOnDate(p) ==
    {w \in fetch[p].body : w.day = appointment[p].date_time.date}

\* the windows among them that hold the request's time of day
WindowsHolding(p) ==
    {w \in WindowsOnDate(p) :
        w.start_time <= appointment[p].date_time.time
        /\ appointment[p].date_time.time < w.end_time}

WellFormed(p) == appointment[p].date_time.sep \in {" ", "T"}

Instant(dt) == dt.date * SecondsPerDay + dt.time

\* two appointments of one doctor on one date, closer than the minimum gap
TooClose(a, b) ==
    /\ a.doctor_email = b.doctor_email
    /\ a.date_time.date = b.date_time.date
    /\ Abs(Instant(a.date_time) - Instant(b.date_time)) < MinGapSeconds

\* ------------------------------------------------------------------ C1
\* C1 (containment at admission): a request gets past check_availability,
\* issues its put or ends committed only if the mapping its own GET returned
\* lists, under the request's date, a window with
\* start_time <= time of day < end_time.
C1_ContainmentAtAdmission ==
    \A p \in Procs :
        (PassedAvailability(p) \/ Committed(p))
            => Fetched(p) /\ WellFormed(p) /\ WindowsHolding(p) # {}

\* a request committed, and its appointment is in the table
C1_Witness ==
    \E p \in Procs :
        /\ Committed(p)
        /\ ApptItem(appointment_id[p], appointment[p]) \in appointment_table
        /\ WindowsHolding(p) # {}

\* ------------------------------------------------------------------ C2
\* C2 (separation under sequential admission): with requests served one at
\* a time and no appointment query failing, any two stored appointments of
\* one doctor on one date are at least MinGapSeconds apart.
C2_SeparationSequential ==
    (\A p \in Procs : ~query_failed[p])
        => \A a, b \in appointment_table : a # b => ~TooClose(a, b)

\* ------------------------------------------------------------------ C3
\* the other requests never drew the id of p
FreshId(p) == \A r \in Procs \ {p} : appointment_id[r] # appointment_id[p]

\* p and q, both in the space form and for one doctor and date, closer than
\* the gap, each queried the table before the other wrote: neither list
\* holds the other's item, and neither query nor put raised an error
RacePair(p, q) ==
    /\ p # q
    /\ IssuedCreate(p) /\ IssuedCreate(q)
    /\ appointment[p].date_time.sep = " " /\ appointment[q].date_time.sep = " "
    /\ TooClose(appointment[p], appointment[q])
    /\ ~query_failed[p] /\ ~query_failed[q]
    /\ ~create_failed[p] /\ ~create_failed[q]
    /\ FreshId(p) /\ FreshId(q)
    /\ ApptItem(appointment_id[q], appointment[q]) \notin existing_appointments[p]
    /\ ApptItem(appointment_id[p], appointment[p]) \notin existing_appointments[q]

\* C3 (concurrent-admission race): two interleaved requests for one doctor
\* and date closer than the gap that both read before either writes both
\* commit under distinct ids; the put's condition on the id stops neither.
C3_RaceBothCommit ==
    \A p, q \in Procs :
        RacePair(p, q)
            => /\ Committed(p) /\ Committed(q)
               /\ appointment_id[p] # appointment_id[q]
               /\ ApptItem(appointment_id[p], appointment[p]) \in appointment_table
               /\ ApptItem(appointment_id[q], appointment[q]) \in appointment_table

\* the race happened: the table holds two appointments that break separation
C3_Witness ==
    \E p, q \in Procs :
        /\ RacePair(p, q)
        /\ Committed(p) /\ Committed(q)
        /\ \E a, b \in appointment_table :
              /\ a.id = appointment_id[p] /\ b.id = appointment_id[q]
              /\ a # b /\ TooClose(a, b)

\* ------------------------------------------------------------------ C4
\* C4 (the write is the arbiter of conflict): of two requests for the same
\* doctor and the same instant whose queries did not fail, at most one ends
\* committed, under every interleaving.
C4_WriteArbitrates ==
    \A p, q \in Procs :
        (/\ p # q
         /\ Done(p) /\ Done(q)
         /\ appointment[p].doctor_email = appointment[q].doctor_email
         /\ appointment[p].date_time = appointment[q].date_time
         /\ ~query_failed[p] /\ ~query_failed[q])
            => ~(Committed(p) /\ Committed(q))

\* ------------------------------------------------------------------ C5
\* the appointments stored for the doctor and instant of request p
StoredAt(p) ==
    {x \in appointment_table :
        /\ x.doctor_email = appointment[p].doctor_email
        /\ Instant(x.date_time) = Instant(appointment[p].date_time)}

\* q repeats p right after it: p found no appointment of the doctor, both
\* found the instant inside a window, no store call raised an error, and no
\* later request has returned yet
SameRequestTwice(p, q) ==
    /\ q = p + 1
    /\ Done(p) /\ Done(q)
    /\ appointment[p] = appointment[q]
    /\ PassedAvailability(p) /\ PassedAvailability(q)
    /\ existing_appointments[p] = {}
    /\ ~query_failed[p] /\ ~query_failed[q]
    /\ ~create_failed[p] /\ ~create_failed[q]
    /\ \A r \in Procs : r < p => appointment_id[r] # appointment_id[p]
    /\ \A r \in Procs : r > q => ~Done(r)

\* C5 (idempotent rejection): the same request issued twice in a row ends
\* committed the first time and rejected for conflict the second time, and
\* the table holds exactly one appointment for that doctor and instant.
C5_IdempotentRejection ==
    \A p, q \in Procs :
        SameRequestTwice(p, q)
            => /\ Committed(p)
               /\ RejectedWith(q, MsgConflict)
               /\ Cardinality(StoredAt(p)) = 1

\* the same request was issued twice, in the "T" form
C5_Witness ==
    \E p, q \in Procs :
        /\ SameRequestTwice(p, q)
        /\ appointment[p].date_time.sep = "T"
        /\ RejectedWith(q, MsgConflict)

\* ------------------------------------------------------------------ C6
\* the GET of p returned exactly the windows of Scenario A: 09:00-12:00 on
\* 2024-01-10 and nothing else
ScenarioAWindows(p) ==
    /\ Fetched(p)
    /\ ~fetch[p].table_error
    /\ fetch[p].body =
          {[day |-> 10, start_time |-> HM(9, 0), end_time |-> HM(12, 0)]}

\* p is the Scenario A request of doctor d1 at time t, in the "T" form, and
\* it returned without a store error
ScenarioARequest(p, t) ==
    /\ Done(p)
    /\ appointment[p].doctor_email = "d1"
    /\ appointment[p].date_time = MkDateTime(10, "T", t)
    /\ ScenarioAWindows(p)
    /\ ~query_failed[p] /\ ~create_failed[p]

\* the list p queried holds a booking on the date of p (by the first 10
\* characters) closer than the gap
SawCloseBooking(p) ==
    \E e \in existing_appointments[p] :
        /\ e.date_time.date = appointment[p].date_time.date
        /\ Abs(Instant(e.date_time) - Instant(appointment[p].date_time))
              < MinGapSeconds

\* C6 (Scenario A in the "T" form): served one after the other, the 09:00
\* request commits, the 09:30 request that follows it is rejected for
\* conflict and the 13:00 request is rejected for time unavailable; and no
\* request gets past the conflict test having read a booking of the same
\* first 10 characters closer than the gap, whatever the separator.
C6_ScenarioA ==
    (\A r \in Procs : ~query_failed[r] /\ ~create_failed[r])
        => \A p \in Procs :
            /\ (ScenarioARequest(p, HM(9, 0)) /\ existing_appointments[p] = {}
                    /\ FreshId(p))
                  => Committed(p)
            /\ (ScenarioARequest(p, HM(9, 30))
                    /\ \E e \in existing_appointments[p] :
                          e.date_time = MkDateTime(10, "T", HM(9, 0)))
                  => RejectedWith(p, MsgConflict)
            /\ ScenarioARequest(p, HM(13, 0))
                  => RejectedWith(p, MsgTimeUnavailable)
            /\ (pc[p] = "create" \/ IssuedCreate(p)) => ~SawCloseBooking(p)

\* ------------------------------------------------------------------ C7
\* C7 (half-open window matching): when the fetched mapping lists a window
\* under the request's date, check_availability accepts exactly when some
\* window of that date has start_time <= time of day < end_time, and
\* rejects with the time-unavailable message otherwise.
C7_HalfOpenMatching ==
    \A p \in Procs :
        (Fetched(p) /\ WellFormed(p) /\ WindowsOnDate(p) # {})
            => /\ PassedAvailability(p) <=> WindowsHolding(p) # {}
               /\ ~PassedAvailability(p) => RejectedWith(p, MsgTimeUnavailable)

\* with two windows on the date, a request at the end of the first window,
\* which is in the gap before the second, was rejected, and a request at a
\* window's start_time was accepted
C7_Witness ==
    \E p, q \in Procs :
        /\ Fetched(p) /\ WellFormed(p)
        /\ Cardinality(WindowsOnDate(p)) = 2
        /\ \E w \in WindowsOnDate(p) : w.end_time = appointment[p].date_time.time
        /\ RejectedWith(p, MsgTimeUnavailable)
        /\ Fetched(q) /\ WellFormed(q)
        /\ \E w \in WindowsOnDate(q) : w.start_time = appointment[q].date_time.time
        /\ PassedAvailability(q)

\* ------------------------------------------------------------------ C8
\* C8 (date unavailable): when the availability table answered and lists no
\* window under the request's date, the request ends rejected with the
\* date-unavailable message, which is not the time-unavailable message, and
\* it never queried the appointments nor issued a put.
C8_DateUnavailable ==
    \A p \in Procs :
        (Fetched(p) /\ ~fetch[p].table_error /\ WellFormed(p)
            /\ WindowsOnDate(p) = {})
            => /\ RejectedWith(p, MsgDateUnavailable)
               /\ MsgDateUnavailable # MsgTimeUnavailable
               /\ appointment_id[p] = 0
               /\ \A x \in appointment_table :
                     x.date_time # appointment[p].date_time
                     \/ x.doctor_email # appointment[p].doctor_email
                     \/ \E r \in Procs \ {p} :
                           Committed(r) /\ x = ApptItem(appointment_id[r], appointment[r])

\* the doctor has windows, none of them on the request's date, and the
\* request was rejected with the date-unavailable message
C8_Witness ==
    \E p \in Procs :
        /\ Fetched(p) /\ ~fetch[p].table_error /\ WellFormed(p)
        /\ fetch[p].body # {}
        /\ WindowsOnDate(p) = {}
        /\ RejectedWith(p, MsgDateUnavailable)

\* ------------------------------------------------------------------ C9
\* C9 (appointment-query failure rejects): a request whose appointment query
\* raised an error issues no put and ends rejected.
C9_QueryFailureRejects ==
    \A p \in Procs :
        query_failed[p]
            => /\ appointment_id[p] = 0
               /\ Done(p) => Rejected(p)

\* ----------------------------------------------------------------- C10
\* the availability lookup of p failed: the GET raised, came back with
\* another status than 200, or the availability table raised an error
FetchFailed(p) ==
    /\ Started(p)
    /\ fetch[p] # None
    /\ \/ fetch[p].kind = "exception"
       \/ fetch[p].status # 200
       \/ fetch[p].table_error

\* C10 (availability-fetch failure is distinguishable): a request whose
\* availability lookup failed ends rejected with a message that is neither
\* the date-unavailable nor the time-unavailable message.
C10_FetchFailureDistinct ==
    \A p \in Procs :
        FetchFailed(p)
            => /\ Rejected(p)
               /\ result[p].message \notin {MsgDateUnavailable, MsgTimeUnavailable}

\* ----------------------------------------------------------------- C11
\* the put of p found its id in the table (ConditionalCheckFailedException)
DuplicateId(p) ==
    IssuedCreate(p) /\ ~result[p].success /\ ~create_failed[p]

\* the put of p raised another ClientError
StoreError(p) ==
    IssuedCreate(p) /\ ~result[p].success /\ create_failed[p]

\* what create_appointment returns when the same put raises another
\* ClientError than the failed condition
OutcomeOfStoreError(p) ==
    CreateOutcome(
        RepoCreateAppointment(
            appointment_table, ApptItem(appointment_id[p], appointment[p]),
            TRUE).ok,
        "none")

\* C11 (create failures are handled and told apart): a put that finds its id
\* taken and a put that fails otherwise both end the request rejected,
\* never committed, and the reason returned for the taken id differs from the
\* reason returned for the other failure.
C11_CreateFailuresToldApart ==
    \A p \in Procs :
        /\ (DuplicateId(p) \/ StoreError(p)) => Rejected(p)
        /\ DuplicateId(p) => result[p].message # OutcomeOfStoreError(p).message

\* ----------------------------------------------------------------- C12
\* C12 (no partial effect): a step of a request that does not end it
\* committed, whether it moves the request on or ends it rejected at the
\* availability check, the conflict check or the put, leaves the stored
\* appointments as they were.
C12_NoPartialEffect ==
    [][\A p \in Procs :
          (pc'[p] # pc[p] /\ ~Committed(p)') =>
              appointment_table' = appointment_table]_vars

\* a request rejected by a failed put, nothing stored under its id
C12_Witness ==
    \E p \in Procs :
        /\ StoreError(p)
        /\ \A x \in appointment_table : x.id # appointment_id[p]

PutSucceeded(p) == Done(p) /\ email[p] # "none"

\* C14 (notification is best effort): once the put of a request has stored
\* its item, the request is reported committed and the item stays stored,
\* whether the e-mail was sent, failed or is disabled.
C14_NotificationBestEffort ==
    \A p \in Procs :
        PutSucceeded(p) =>
            /\ email[p] \in {"sent", "failed", "disabled"}
            /\ result[p] = Result(TRUE, MsgCreated)
            /\ ApptItem(appointment_id[p], appointment[p]) \in appointment_table

\* a committed request whose e-mail failed, and one whose e-mail is disabled
C14_Witness ==
    \E p, q \in Procs :
        /\ PutSucceeded(p) /\ email[p] = "failed"
        /\ PutSucceeded(q) /\ email[q] = "disabled"

\* ----------------------------------------------------------------- C15
\* the item a request asked to store
ItemOf(p) == ApptItem(appointment_id[p], appointment[p])

\* C15 (id uniqueness): under any interleaving no two stored appointments
\* share an id, the item of every committed request is still the one stored
\* under its id, and a request whose put found its id taken is rejected with
\* the earlier item left in place.
C15_IdUniqueness ==
    /\ \A x, y \in appointment_table : x.id = y.id => x = y
    /\ \A p \in Procs :
         Committed(p) =>
             \A x \in appointment_table :
                 x.id = appointment_id[p] => x = ItemOf(p)
    /\ \A p \in Procs :
         DuplicateId(p) =>
             \E q \in Procs \ {p} :
                 /\ Committed(q) /\ appointment_id[q] = appointment_id[p]
                 /\ ItemOf(q) \in appointment_table
                 /\ (ItemOf(p) # ItemOf(q) => ItemOf(p) \notin appointment_table)

\* a put that found its id taken by a different appointment
C15_Witness ==
    \E p \in Procs :
        /\ DuplicateId(p)
        /\ \E x \in appointment_table :
              x.id = appointment_id[p] /\ x.date_time # appointment[p].date_time

\* ----------------------------------------------------------------- C16
\* C16 (created once, read-only after): the step that commits a request adds
\* exactly one item, carrying the request's doctor, patient and date_time;
\* no other step changes the stored appointments, and no step changes or
\* removes an item already stored.
C16_CreatedOnceReadOnly ==
    [][/\ appointment_table \subseteq appointment_table'
       /\ \A p \in Procs :
            (~Done(p) /\ Committed(p)') =>
                /\ Cardinality(appointment_table' \ appointment_table) = 1
                /\ \A x \in appointment_table' \ appointment_table :
                      /\ x.id = appointment_id'[p]
                      /\ x.doctor_email = appointment[p].doctor_email
                      /\ x.patient_email = appointment[p].patient_email
                      /\ x.date_time = appointment[p].date_time
       /\ appointment_table' # appointment_table =>
              \E p \in Procs : ~Done(p) /\ Committed(p)']_vars

\* two committed requests, two stored appointments
C16_Witness ==
    /\ Cardinality(appointment_table) = 2
    /\ \E p, q \in Procs : p # q /\ Committed(p) /\ Committed(q)

\* ----------------------------------------------------------------- C17
\* the windows now stored for the doctor and the date of a stored appointment
\* that hold its time of day
StoredWindowsHolding(x) ==
    {w \in availability_table :
        /\ w.doctor_email = x.doctor_email
        /\ w.day = x.date_time.date
        /\ w.start_time <= x.date_time.time
        /\ x.date_time.time < w.end_time}

\* C17 (containment as a state invariant): in every reachable state, also
\* after a window was deleted and also when the availability changed between
\* a request's check and its put, every stored appointment lies inside a
\* window now stored for its doctor and date.
C17_ContainmentInvariant ==
    \A x \in appointment_table : StoredWindowsHolding(x) # {}

\* ----------------------------------------------------------------- C18
\* what GET /appointments/doctor/{doctor_email} computes in this state
ListingOf(doc) ==
    ServiceGetDoctorAppointments(
        RepoGetDoctorAppointments(appointment_table, doc, FALSE))

\* the stored appointments of a doctor on a date at an "HH:MM"
StoredAtMinute(doc, date, minute) ==
    {x \in appointment_table :
        /\ x.doctor_email = doc
        /\ x.date_time.date = date
        /\ x.date_time.time \div 60 = minute}

\* C18 (listing is complete and grouped): in every state, for every
\* date-time the admission accepted, listing a doctor's appointments does not
\* fail and returns under each date exactly one "HH:MM" entry per stored
\* appointment of that doctor, and nothing of another doctor.
C18_ListingComplete ==
    \A doc \in {a.doctor_email : a \in Requests} :
        LET listing == ListingOf(doc) IN
        /\ listing.raised = "none"
        /\ \A x \in appointment_table :
             x.doctor_email = doc =>
                /\ <<x.date_time.date>> \in DOMAIN listing.formatted
                /\ x.date_time.time \div 60
                      \in DOMAIN listing.formatted[<<x.date_time.date>>]
        /\ \A d \in DOMAIN listing.formatted :
             \A t \in DOMAIN listing.formatted[d] :
                listing.formatted[d][t]
                    = Cardinality(StoredAtMinute(doc, d[1], t))

\* ----------------------------------------------------------------- C19
\* the reasons of a slot that is not available, of a conflict, of a failed
\* availability lookup and of a failed store
OtherReasons ==
    {MsgDateUnavailable, MsgTimeUnavailable, MsgConflict,
     MsgFetchStatus, MsgFetchError, MsgCreateFailed}

\* C19 (malformed input is rejected, never reinterpreted): a request whose
\* date_time is not a date-time never gets past the availability check, is
\* never committed, and ends rejected with a reason that is none of the
\* slot-unavailable, conflict and upstream reasons.
C19_MalformedRejected ==
    \A p \in Procs :
        (Started(p) /\ ~WellFormed(p)) =>
            /\ ~PassedAvailability(p)
            /\ ~Committed(p)
            /\ Done(p) => (Rejected(p) /\ result[p].message \notin OtherReasons)

\* ----------------------------------------------------------------- C20
\* the request ran the conflict test of lines 45-58
ConflictTested(p) ==
    \/ pc[p] = "create"
    \/ Done(p) /\ result[p].message \in {MsgConflict, MsgCreateFailed, MsgCreated}

\* C20 (conflict rule): a request that ran the conflict test is rejected for
\* conflict exactly when the list it read holds an appointment on its date
\* (same first 10 characters) whose start is less than 3600 s away in
\* absolute value; at 3600 s or more it goes on to its put; and the list
\* it read holds bookings of its own doctor only.
C20_ConflictRule ==
    \A p \in Procs :
        ConflictTested(p) =>
            /\ RejectedWith(p, MsgConflict) <=> SawCloseBooking(p)
            /\ \A e \in existing_appointments[p] :
                  e.doctor_email = appointment[p].doctor_email

\* ----------------------------------------------------------------- C21
\* the 00:15 request of day 11 that read the 23:30 booking of day 10
CrossMidnight(p) ==
    /\ ConflictTested(p)
    /\ appointment[p].date_time = MkDateTime(11, " ", HM(0, 15))
    /\ \E e \in existing_appointments[p] :
          e.date_time = MkDateTime(10, " ", HM(23, 30))

\* C21 (cross-midnight pairs are not compared): served after the 23:30
\* booking of the day before, 2700 s earlier, the 00:15 request is not
\* rejected for conflict and, its put succeeding, is committed; and a
\* request is rejected for conflict only if the list it read holds an
\* appointment of its own date.
C21_CrossMidnight ==
    \A p \in Procs :
        /\ CrossMidnight(p) =>
              /\ ~RejectedWith(p, MsgConflict)
              /\ (Done(p) /\ FreshId(p) /\ ~create_failed[p]) => Committed(p)
        /\ RejectedWith(p, MsgConflict) =>
              \E e \in existing_appointments[p] :
                  e.date_time.date = appointment[p].date_time.date

\* both committed, 2700 s apart across midnight
C21_Witness ==
    \E p \in Procs :
        /\ CrossMidnight(p)
        /\ Committed(p)
        /\ Cardinality(appointment_table) = 2

\* ----------------------------------------------------------------- C22
\* what check_availability made of the response the request got
AvailabilityOutcome(p) ==
    CheckAvailability(appointment[p].date_time, fetch[p])

\* the request has neither queried the appointments nor put nor notified
NoStoreCallYet(p) ==
    /\ existing_appointments[p] = {}
    /\ ~query_failed[p]
    /\ appointment_id[p] = 0
    /\ ~create_failed[p]
    /\ email[p] = "none"

\* C22 (ordering of the admission steps): a request fetches the availability
\* first, queries the appointments only after the availability was Ok and
\* puts only after the conflict test found nothing; when the availability is
\* anything but Ok it ends rejected with that reason, having made no
\* query, no put and no notification.
C22_StepOrdering ==
    [][\A p \in Procs :
         pc'[p] # pc[p] =>
            \/ /\ pc[p] = "idle" /\ pc'[p] = "check_availability"
               /\ fetch'[p] = None /\ NoStoreCallYet(p)'
            \/ /\ pc[p] = "check_availability" /\ pc'[p] = "query"
               /\ AvailabilityOutcome(p)'.success
               /\ NoStoreCallYet(p)'
            \/ /\ pc[p] = "check_availability" /\ pc'[p] = "done"
               /\ ~AvailabilityOutcome(p)'.success
               /\ result'[p] = AvailabilityOutcome(p)'
               /\ NoStoreCallYet(p)'
               /\ appointment_table' = appointment_table
            \/ /\ pc[p] = "query" /\ pc'[p] = "create"
               /\ ~IsConflicting(appointment[p], existing_appointments'[p])
               /\ appointment_id'[p] = 0 /\ email'[p] = "none"
            \/ /\ pc[p] = "query" /\ pc'[p] = "done"
               /\ RejectedWith(p, MsgConflict)'
               /\ appointment_id'[p] = 0 /\ email'[p] = "none"
            \/ /\ pc[p] = "create" /\ pc'[p] = "done"
               /\ appointment_id'[p] # 0]_vars

\* rejected at the availability check while the doctor has a booking a
\* query would have returned
C22_Witness ==
    \E p \in Procs :
        /\ RejectedWith(p, MsgTimeUnavailable)
        /\ NoStoreCallYet(p)
        /\ \E x \in appointment_table :
              x.doctor_email = appointment[p].doctor_email

\* ----------------------------------------------------------------- C23
\* C23 (no blind retry of the write): a request issues its put in one step
\* and never comes back to it; a put that raised ends the request rejected
\* with the table as it was; only a put changes the table, by one item at
\* most, so the stored appointments are as many as the committed requests.
C23_NoBlindRetry ==
    /\ [](Cardinality(appointment_table)
            = Cardinality({p \in Procs : Committed(p)}))
    /\ [][/\ \A p \in Procs :
               /\ pc[p] = "create" /\ pc'[p] # "create" =>
                    /\ Done(p)'
                    /\ Cardinality(appointment_table' \ appointment_table) <= 1
                    /\ create_failed'[p] =>
                          (Rejected(p)' /\ appointment_table' = appointment_table)
               /\ pc[p] # "create" /\ pc'[p] = "create" => pc[p] = "query"
               /\ Done(p) => pc'[p] # "create"
          /\ appointment_table' # appointment_table =>
                \E p \in Procs : pc[p] = "create" /\ Done(p)']_vars

\* a request whose put raised, rejected, while the other one's item is stored
C23_Witness ==
    \E p, q \in Procs :
        /\ StoreError(p) /\ Rejected(p)
        /\ Committed(q)
        /\ Cardinality(appointment_table) = 1

\* ------------------------------------------- the availability service's API
MaxAvailCalls == 3

SlotB == <<HM(10, 0), HM(13, 0)>>

\* the DailyAvailability bodies POST /doctors/{doctor_email}/availability
\* is called with
DailyAvailabilityInputs ==
    {[doctor_email |-> "d1", day |-> 10, time_slots |-> <<SlotA>>],
     [doctor_email |-> "d1", day |-> 10, time_slots |-> <<SlotA, SlotB>>]}

\* new_start_time / new_end_time left out of an AvailabilityUpdate (None)
NoTime == -1

\* the AvailabilityUpdate bodies: the old window and both, one or no new time
AvailabilityUpdateInputs ==
    [day : {10}, old_start_time : {SlotA[1]}, old_end_time : {SlotA[2]},
     new_start_time : {NoTime, SlotA[1], SlotB[1]},
     new_end_time : {NoTime, SlotA[2], SlotB[2]}]

\* the AvailabilityDelete bodies
AvailabilityDeleteInputs ==
    [day : {10}, start_time : {SlotA[1], SlotB[1]},
     end_time : {SlotA[2], SlotB[2]}]

\* x or y of Python, for an Optional[str] x
OrElse(x, y) == IF x = NoTime THEN y ELSE x

\* AvailabilityRepository.add_availability with its return value: True when
\* every slot was put, False when the put after the first `stored` raised
RepoAddAvailability(table, availability, stored) ==
    [table |-> AddSlots(table, availability.doctor_email, availability.day,
                        availability.time_slots, stored),
     ok |-> stored = Len(availability.time_slots)]

\* AvailabilityRepository.update_availability; failAt is the store call that
\* raises ClientError, 0 when none does
RepoUpdateAvailability(table, doc, update, failAt) ==
    IF update.new_start_time # NoTime /\ update.new_end_time # NoTime
    THEN LET new == AvailItem(doc, update.day,
                              update.new_start_time, update.new_end_time,
                              update.new_start_time, update.new_end_time)
             afterPut == AvailPut(table, new)
         IN  IF failAt = 1 THEN [table |-> table, ok |-> FALSE]
             ELSE IF failAt = 2 THEN [table |-> afterPut, ok |-> FALSE]
             ELSE [table |-> AvailDelete(afterPut, doc, update.day,
                                         update.old_start_time,
                                         update.old_end_time),
                   ok |-> TRUE]
    ELSE IF failAt # 0 THEN [table |-> table, ok |-> FALSE]
         ELSE \* update_item sets the two attributes of the item under the old
              \* key, creating the item when there is none
              [table |-> AvailPut(table,
                            AvailItem(doc, update.day,
                                update.old_start_time, update.old_end_time,
                                OrElse(update.new_start_time, update.old_start_time),
                                OrElse(update.new_end_time, update.old_end_time))),
               ok |-> TRUE]

\* AvailabilityRepository.delete_availability with its return value
RepoDeleteAvailability(table, doc, delete, clientError) ==
    IF clientError THEN [table |-> table, ok |-> FALSE]
    ELSE [table |-> AvailDelete(table, doc, delete.day,
                                delete.start_time, delete.end_time),
          ok |-> TRUE]

\* what the handler answers: the message with 200, or HTTPException 400
AvailAnswer(ok, done, failed) ==
    IF ok THEN [status |-> 200, message |-> done]
    ELSE [status |-> 400, detail |-> failed]

\* POST /doctors/{doctor_email}/availability
add_doctor_availability(doctor_email, availability, stored) ==
    /\ avail_ops < MaxAvailCalls
    /\ avail_ops' = avail_ops + 1
    /\ IF doctor_email # availability.doctor_email
       THEN /\ UNCHANGED availability_table
            /\ avail_call' =
                 [op |-> "add", doctor_email |-> doctor_email,
                  body |-> availability,
                  answer |-> AvailAnswer(FALSE, "",
                      "Doctor email in path must match email in body")]
       ELSE LET r == RepoAddAvailability(availability_table, availability, stored)
            IN  /\ availability_table' = r.table
                /\ avail_call' =
                     [op |-> "add", doctor_email |-> doctor_email,
                      body |-> availability,
                      answer |-> AvailAnswer(r.ok,
                          "Availability added successfully",
                          "Failed to add availability")]
    /\ UNCHANGED <<appointment_table, reqvars, authvars>>

\* PUT /doctors/{doctor_email}/availability
update_doctor_availability(doctor_email, update, failAt) ==
    /\ avail_ops < MaxAvailCalls
    /\ avail_ops' = avail_ops + 1
    /\ LET r == RepoUpdateAvailability(availability_table, doctor_email,
                                       update, failAt)
       IN  /\ availability_table' = r.table
           /\ avail_call' =
                [op |-> "update", doctor_email |-> doctor_email,
                 body |-> update,
                 answer |-> AvailAnswer(r.ok,
                     "Availability updated successfully",
                     "Failed to update availability")]
    /\ UNCHANGED <<appointment_table, reqvars, authvars>>

\* DELETE /doctors/{doctor_email}/availability
delete_doctor_availability(doctor_email, delete, clientError) ==
    /\ avail_ops < MaxAvailCalls
    /\ avail_ops' = avail_ops + 1
    /\ LET r == RepoDeleteAvailability(availability_table, doctor_email,
                                       delete, clientError)
       IN  /\ availability_table' = r.table
           /\ avail_call' =
                [op |-> "delete", doctor_email |-> doctor_email,
                 body |-> delete,
                 answer |-> AvailAnswer(r.ok,
                     "Availability deleted successfully",
                     "Failed to delete availability")]
    /\ UNCHANGED <<appointment_table, reqvars, authvars>>

AddDoctorAvailability ==
    \E doc \in {"d1", "d2"}, a \in DailyAvailabilityInputs :
        \E stored \in 0 .. Len(a.time_slots) :
            add_doctor_availability(doc, a, stored)

\* the store calls of an update: two when both new times are given, else one
UpdateDoctorAvailability ==
    \E u \in AvailabilityUpdateInputs :
        \E failAt \in 0 .. (IF u.new_start_time # NoTime /\ u.new_end_time # NoTime
                            THEN 2 ELSE 1) :
            update_doctor_availability("d1", u, failAt)

DeleteDoctorAvailability ==
    \E d \in AvailabilityDeleteInputs, ce \in BOOLEAN :
        delete_doctor_availability("d1", d, ce)

NextAvail ==
    \/ AddDoctorAvailability
    \/ UpdateDoctorAvailability
    \/ DeleteDoctorAvailability

\* the availability service alone, its calls served one after the other
SpecAvail == Init /\ [][NextAvail]_vars

\* GET /doctors/{doctor_email}/availability in this state
ListedWindows(doc) == GetDoctorAvailability(availability_table, doc, FALSE)

CalledOk(op) ==
    avail_call # None /\ avail_call.op = op /\ avail_call.answer.status = 200

\* ----------------------------------------------------------------- C24
\* C24 (window replacement): right after an update with both new times
\* given was answered with success, the doctor's availability lists the
\* window of the new times under the day, also when the new times equal
\* the old ones, and no longer lists the old window when they differ.
C24_WindowReplacement ==
    (/\ CalledOk("update")
     /\ avail_call.body.new_start_time # NoTime
     /\ avail_call.body.new_end_time # NoTime)
    => LET u == avail_call.body
           new == [day |-> u.day, start_time |-> u.new_start_time,
                   end_time |-> u.new_end_time]
           old == [day |-> u.day, start_time |-> u.old_start_time,
                   end_time |-> u.old_end_time]
       IN  /\ new \in ListedWindows(avail_call.doctor_email)
           /\ new # old => old \notin ListedWindows(avail_call.doctor_email)

\* ----------------------------------------------------------------- C25
\* the table after delete_availability called with the window's own day,
\* start_time and end_time
AfterDeleting(doc, w) ==
    RepoDeleteAvailability(
        availability_table, doc,
        [day |-> w.day, start_time |-> w.start_time, end_time |-> w.end_time],
        FALSE).table

\* C25 (availability key consistency): after any sequence of adds, updates
\* with both, one or no new time, and deletes, the key of every stored item
\* is built from the item's own start_time and end_time, and every window
\* the doctor's availability lists is gone after a delete called with that
\* window's day, start_time and end_time.
C25_KeyConsistency ==
    /\ \A x \in availability_table :
          x.kstart = x.start_time /\ x.kend = x.end_time
    /\ \A doc \in {x.doctor_email : x \in availability_table} :
          \A w \in ListedWindows(doc) :
              w \notin GetDoctorAvailability(AfterDeleting(doc, w), doc, FALSE)

\* ----------------------------------------------------------------- C26
\* the windows of a DailyAvailability body
WindowsOfBody(a) ==
    {[day |-> a.day, start_time |-> a.time_slots[i][1],
      end_time |-> a.time_slots[i][2]] : i \in 1 .. Len(a.time_slots)}

\* C26 (add_availability is all-or-nothing): a call answered with success
\* has stored every slot of its body, and a call answered with a failure has
\* left the availability table as it was.
C26_AddAllOrNothing ==
    [][(avail_call' # avail_call /\ avail_call'.op = "add") =>
          /\ avail_call'.answer.status = 200 =>
                WindowsOfBody(avail_call'.body)
                    \subseteq GetDoctorAvailability(
                                  availability_table',
                                  avail_call'.doctor_email, FALSE)
          /\ avail_call'.answer.status # 200 =>
                availability_table' = availability_table]_vars

\* ------------------------------------------------------- the auth service
MaxAuthCalls == 5

Emails == {"ana@x", "bob@x"}
Passwords == {"pw1", "pw2"}

\* pwd_context.hash(password): a bcrypt hash, of which only the password it
\* was made from matters to verify
GetPasswordHash(password) == [scheme |-> "bcrypt", of |-> password]

\* pwd_context.verify(plain_password, hashed_password)
VerifyPassword(plain_password, hashed_password) ==
    hashed_password.scheme = "bcrypt" /\ hashed_password.of = plain_password

\* the PatientCreate and DoctorCreate bodies (name and cpf play no part)
PatientCreateInputs == [email : Emails, password : Passwords]
DoctorCreateInputs == [email : Emails, password : Passwords, crm : {"crm1"}]

\* UserInDB(**user.dict(), user_type=..., hashed_password=...); crm is None
\* for a patient
UserInDB(user, user_type) ==
    [email |-> user.email, user_type |-> user_type,
     hashed_password |-> GetPasswordHash(user.password),
     crm |-> IF user_type = "doctor" THEN user.crm ELSE "None"]

\* DynamoDBAuthRepository.get_user: the item of the key, None when there is
\* none and None on ClientError
RepoGetUser(table, username, clientError) ==
    IF clientError \/ ~\E u \in table : u.email = username THEN None
    ELSE CHOOSE u \in table : u.email = username

\* a put_item without ConditionExpression: replaces the item of the key
RepoCreateUserNoCondition(table, user, clientError) ==
    IF clientError THEN [table |-> table, returned |-> "False"]
    ELSE [table |-> {u \in table : u.email # user.email} \cup {user},
          returned |-> "True"]

\* DynamoDBAuthRepository.create_user: put_item conditioned on
\* attribute_not_exists(email); raises UserAlreadyExistsException when the
\* condition fails and returns False on another ClientError
RepoCreateUser(table, user, clientError) ==
    IF clientError THEN [table |-> table, returned |-> "False"]
    ELSE IF \E u \in table : u.email = user.email
         THEN [table |-> table, returned |-> "UserAlreadyExistsException"]
         ELSE [table |-> table \cup {user}, returned |-> "True"]

\* DynamoDBAuthRepository.delete_user
RepoDeleteUser(table, username, clientError) ==
    IF clientError THEN [table |-> table, ok |-> FALSE]
    ELSE [table |-> {u \in table : u.email # username}, ok |-> TRUE]

\* create_patient / create_doctor of the service and their handlers: the
\* response model on success, and 400 both when the repository raised and
\* when it returned False
RegisterAnswer(user, user_type, returned) ==
    IF returned = "True"
    THEN [status |-> 200, email |-> user.email, user_type |-> user_type]
    ELSE [status |-> 400, detail |-> "Email already registered"]

\* create_access_token(data={"sub": user.email}) and what decode_token makes
\* of a token: the email of its "sub", or InvalidCredentialsException for a
\* string that is not a token signed with the key
CreateAccessToken(username) == [sub |-> username]
ForgedToken == [sub |-> "?"]
DecodeToken(token) ==
    IF token = ForgedToken THEN "InvalidCredentialsException" ELSE token.sub

\* AuthService.authenticate_user: the user, or the exception raised
AuthenticateUser(table, username, password, clientError) ==
    LET user == RepoGetUser(table, username, clientError)
    IN  IF user = None THEN [raised |-> "UserNotFoundException"]
        ELSE IF ~VerifyPassword(password, user.hashed_password)
             THEN [raised |-> "InvalidCredentialsException"]
             ELSE [raised |-> "none", user |-> user]

\* a login that tells an unknown email from a wrong password
LoginFailureTelling(raised) ==
    IF raised = "UserNotFoundException"
    THEN [status |-> 404, detail |-> "User not found", headers |-> {}]
    ELSE [status |-> 401, detail |-> "Incorrect username or password",
          headers |-> {<<"WWW-Authenticate", "Bearer">>}]

\* the except clause of login (lines 104-109)
LoginFailure(raised) ==
    [status |-> 401, detail |-> "Incorrect username or password",
     headers |-> {<<"WWW-Authenticate", "Bearer">>}]

\* POST /login: the token, or the answer of the except clause
LoginAnswer(table, username, password, clientError) ==
    LET a == AuthenticateUser(table, username, password, clientError)
    IN  IF a.raised = "none"
        THEN [status |-> 200, access_token |-> CreateAccessToken(a.user.email),
              token_type |-> "bearer"]
        ELSE LoginFailure(a.raised)

\* everything outside the auth service
othervars ==
    <<availability_table, appointment_table, avail_ops, reqvars, avail_call>>

\* POST /register/patient
create_patient(user, clientError) ==
    /\ auth_ops < MaxAuthCalls
    /\ auth_ops' = auth_ops + 1
    /\ LET r == RepoCreateUser(auth_table, UserInDB(user, "patient"), clientError)
       IN  /\ auth_table' = r.table
           /\ auth_call' =
                [call |-> auth_ops', op |-> "create_patient", body |-> user,
                 answer |-> RegisterAnswer(user, "patient", r.returned)]
    /\ UNCHANGED <<tokens, guarded, othervars>>

\* POST /register/doctor
create_doctor(user, clientError) ==
    /\ auth_ops < MaxAuthCalls
    /\ auth_ops' = auth_ops + 1
    /\ LET r == RepoCreateUser(auth_table, UserInDB(user, "doctor"), clientError)
       IN  /\ auth_table' = r.table
           /\ auth_call' =
                [call |-> auth_ops', op |-> "create_doctor", body |-> user,
                 answer |-> RegisterAnswer(user, "doctor", r.returned)]
    /\ UNCHANGED <<tokens, guarded, othervars>>

\* POST /login
login(username, password, clientError) ==
    /\ auth_ops < MaxAuthCalls
    /\ auth_ops' = auth_ops + 1
    /\ LET answer == LoginAnswer(auth_table, username, password, clientError)
       IN  /\ tokens' = IF answer.status = 200
                        THEN tokens \cup {answer.access_token} ELSE tokens
           /\ auth_call' =
                [call |-> auth_ops', op |-> "login", username |-> username,
                 password |-> password, answer |-> answer]
    /\ UNCHANGED <<auth_table, guarded, othervars>>

\* a dependency that trusts the token and does not read the auth table
get_current_user_from_token(g, op, token, target, clientError) ==
    /\ auth_ops < MaxAuthCalls
    /\ guarded[g] = None
    /\ \A h \in GProcs : h < g => guarded[h] # None
    /\ auth_ops' = auth_ops + 1
    /\ LET decoded == DecodeToken(token)
           call == [call |-> auth_ops', op |-> op, token |-> token,
                    target |-> target]
       IN  IF decoded = "InvalidCredentialsException"
           THEN /\ auth_call' =
                     call @@ [answer |-> [status |-> 401,
                                          detail |-> "Invalid token"]]
                /\ UNCHANGED guarded
           ELSE /\ guarded' = [guarded EXCEPT ![g] =
                      call @@ [current_user |->
                                 [email |-> decoded, user_type |-> "patient"]]]
                /\ UNCHANGED auth_call
    /\ UNCHANGED <<auth_table, tokens, othervars>>

\* the dependency get_current_user of a guarded call op: 401 for a token
\* that does not decode; UserNotFoundException, which nothing catches (an
\* internal server error), when get_user returns None; else the call goes
\* on with the user read
get_current_user(g, op, token, target, clientError) ==
    /\ auth_ops < MaxAuthCalls
    /\ guarded[g] = None
    /\ \A h \in GProcs : h < g => guarded[h] # None
    /\ auth_ops' = auth_ops + 1
    /\ LET decoded == DecodeToken(token)
           user == RepoGetUser(auth_table, decoded, clientError)
           call == [call |-> auth_ops', op |-> op, token |-> token,
                    target |-> target]
       IN  IF decoded = "InvalidCredentialsException"
           THEN /\ auth_call' =
                     call @@ [answer |-> [status |-> 401,
                                          detail |-> "Invalid token"]]
                /\ UNCHANGED guarded
           ELSE IF user = None
           THEN /\ auth_call' =
                     call @@ [answer |-> [status |-> 500,
                                          detail |-> "Internal Server Error"]]
                /\ UNCHANGED guarded
           ELSE /\ guarded' = [guarded EXCEPT ![g] =
                                  call @@ [current_user |-> user]]
                /\ UNCHANGED auth_call
    /\ UNCHANGED <<auth_table, tokens, othervars>>

\* what a guarded call that returned leaves behind
Returned(g, answer) ==
    [call |-> guarded[g].call, op |-> guarded[g].op,
     token |-> guarded[g].token, target |-> guarded[g].target,
     answer |-> answer]

\* a delete that does not compare the caller with the email deleted
delete_user_of_anyone(g, clientError) ==
    /\ guarded[g] # None
    /\ guarded[g].op = "delete_user"
    /\ LET r == RepoDeleteUser(auth_table, guarded[g].target, clientError)
       IN  /\ auth_table' = r.table
           /\ auth_call' = Returned(g,
                 IF r.ok
                 THEN [status |-> 200, message |-> "User deleted successfully"]
                 ELSE [status |-> 404, detail |-> "User not found"])
    /\ guarded' = [guarded EXCEPT ![g] = None]
    /\ UNCHANGED <<tokens, auth_ops, othervars>>

\* DELETE /users/{email}, after get_current_user: AuthService.delete_user
delete_user(g, clientError) ==
    /\ guarded[g] # None
    /\ guarded[g].op = "delete_user"
    /\ IF guarded[g].current_user.email # guarded[g].target
       THEN /\ UNCHANGED auth_table
            /\ auth_call' = Returned(g,
                  [status |-> 403, detail |-> "Not authorized to delete this user"])
       ELSE LET r == RepoDeleteUser(auth_table, guarded[g].target, clientError)
            IN  /\ auth_table' = r.table
                /\ auth_call' = Returned(g,
                      IF r.ok
                      THEN [status |-> 200, message |-> "User deleted successfully"]
                      ELSE [status |-> 404, detail |-> "User not found"])
    /\ guarded' = [guarded EXCEPT ![g] = None]
    /\ UNCHANGED <<tokens, auth_ops, othervars>>

\* GET /verify-token, after get_current_user
verify_token(g) ==
    /\ guarded[g] # None
    /\ guarded[g].op = "verify_token"
    /\ auth_call' = Returned(g,
          [status |-> 200, message |-> "Token is valid",
           user |-> [email |-> guarded[g].current_user.email,
                     user_type |-> guarded[g].current_user.user_type]])
    /\ guarded' = [guarded EXCEPT ![g] = None]
    /\ UNCHANGED <<auth_table, tokens, auth_ops, othervars>>

\* GET /users/me, after get_current_user
read_users_me(g) ==
    /\ guarded[g] # None
    /\ guarded[g].op = "read_users_me"
    /\ auth_call' = Returned(g,
          [status |-> 200,
           user |-> [email |-> guarded[g].current_user.email,
                     user_type |-> guarded[g].current_user.user_type]])
    /\ guarded' = [guarded EXCEPT ![g] = None]
    /\ UNCHANGED <<auth_table, tokens, auth_ops, othervars>>

CreatePatient ==
    \E user \in PatientCreateInputs, ce \in BOOLEAN : create_patient(user, ce)

CreateDoctor ==
    \E user \in DoctorCreateInputs, ce \in BOOLEAN : create_doctor(user, ce)

Login ==
    \E username \in Emails, password \in Passwords, ce \in BOOLEAN :
        login(username, password, ce)

\* the guarded calls: a delete of any email, or a call without a target,
\* each made with a token login issued or with a string that is no token
GuardedCalls ==
    [op : {"delete_user"}, target : Emails]
    \cup [op : {"verify_token", "read_users_me"}, target : {"-"}]

GetCurrentUser ==
    \E g \in GProcs, c \in GuardedCalls, ce \in BOOLEAN :
        \E token \in tokens \cup {ForgedToken} :
            get_current_user(g, c.op, token, c.target, ce)

DeleteUser == \E g \in GProcs, ce \in BOOLEAN : delete_user(g, ce)

VerifyToken == \E g \in GProcs : verify_token(g)

ReadUsersMe == \E g \in GProcs : read_users_me(g)

NextAuth ==
    \/ CreatePatient
    \/ CreateDoctor
    \/ Login
    \/ GetCurrentUser
    \/ DeleteUser
    \/ VerifyToken
    \/ ReadUsersMe

\* the auth service alone, its calls interleaved at their store calls
SpecAuth == Init /\ [][NextAuth]_vars

\* ----------------------------------------------------------------- C27
\* a registration returned in this step
Registered ==
    /\ auth_call' # auth_call
    /\ auth_call'.op \in {"create_patient", "create_doctor"}

\* the records of an email
RecordsOf(table, username) == {u \in table : u.email = username}

\* C27 (registration is unique per email under concurrency): whatever the
\* interleaving, a registration succeeds only when no record of its email
\* is stored, and then stores its own record; any other registration is
\* answered 400 'Email already registered' and leaves the table as it was;
\* no registration changes or removes a stored record, and the table never
\* holds two records of one email.
C27_RegistrationUnique ==
    /\ [](\A u, v \in auth_table : u.email = v.email => u = v)
    /\ [][Registered =>
            LET user == auth_call'.body
                user_type == IF auth_call'.op = "create_doctor"
                             THEN "doctor" ELSE "patient"
            IN  /\ auth_table \subseteq auth_table'
                /\ auth_call'.answer.status = 200 =>
                      /\ RecordsOf(auth_table, user.email) = {}
                      /\ auth_table' =
                            auth_table \cup {UserInDB(user, user_type)}
                /\ auth_call'.answer.status # 200 =>
                      /\ auth_call'.answer =
                            [status |-> 400, detail |-> "Email already registered"]
                      /\ auth_table' = auth_table
                /\ RecordsOf(auth_table, user.email) # {} =>
                      auth_call'.answer.status = 400]_vars

\* a doctor registration refused on the email of a stored patient, whose
\* record is as it was
C27_Witness ==
    /\ auth_call # None
    /\ auth_call.op = "create_doctor"
    /\ auth_call.answer.status = 400
    /\ \E u \in auth_table :
          /\ u.email = auth_call.body.email
          /\ u.user_type = "patient"
          /\ u.hashed_password # GetPasswordHash(auth_call.body.password)

\* ----------------------------------------------------------------- C28
\* the guarded call g returns in this step
Returns(g) == guarded[g] # None /\ guarded'[g] = None

\* C28 (deletion is self-only): a delete whose caller is not the user of
\* the email to delete is answered 403 and leaves the auth table as it was;
\* and a record leaves the table only in the step of a delete that was
\* called for the record's email with a token of that email.
C28_DeletionSelfOnly ==
    [][/\ \A g \in GProcs :
            (/\ Returns(g)
             /\ guarded[g].op = "delete_user"
             /\ guarded[g].current_user.email # guarded[g].target)
            => /\ auth_table' = auth_table
               /\ auth_call'.answer =
                     [status |-> 403,
                      detail |-> "Not authorized to delete this user"]
       /\ \A u \in auth_table :
            u \notin auth_table' =>
                \E g \in GProcs :
                    /\ Returns(g)
                    /\ guarded[g].op = "delete_user"
                    /\ guarded[g].target = u.email
                    /\ guarded[g].token = CreateAccessToken(u.email)
                    /\ auth_call'.answer.status = 200]_vars

\* a user asked to delete another one, was refused, and the other's record
\* is stored
C28_Witness ==
    /\ auth_call # None
    /\ auth_call.op = "delete_user"
    /\ auth_call.answer.status = 403
    /\ auth_call.token # ForgedToken
    /\ auth_call.token.sub # auth_call.target
    /\ RecordsOf(auth_table, auth_call.target) # {}

\* ----------------------------------------------------------------- C29
GuardedOps == {"delete_user", "verify_token", "read_users_me"}

\* a guarded call was refused by get_current_user in this step
Refused ==
    /\ auth_ops' # auth_ops
    /\ auth_call' # auth_call
    /\ auth_call'.op \in GuardedOps

\* C29 (a token dies with its account): a guarded call goes on to its
\* operation only with the record stored, at that moment, for the email of
\* its token; made with the token of an email that has no record, as
\* after login and then delete_user, the call is refused with an error
\* answer, resolves no user and changes nothing.
C29_TokenDiesWithAccount ==
    [][/\ \A g \in GProcs :
            (guarded[g] = None /\ guarded'[g] # None) =>
                /\ guarded'[g].current_user \in auth_table
                /\ guarded'[g].current_user.email
                      = DecodeToken(guarded'[g].token)
       /\ Refused =>
            /\ guarded' = guarded
            /\ auth_table' = auth_table
            /\ auth_call'.answer.status \in {401, 500}]_vars

\* the token login issued, used after its account was deleted: refused
C29_Witness ==
    /\ auth_call # None
    /\ auth_call.op = "verify_token"
    /\ auth_call.token \in tokens
    /\ RecordsOf(auth_table, auth_call.token.sub) = {}
    /\ auth_call.answer.status = 500
    /\ \A g \in GProcs : guarded[g] = None

\* ----------------------------------------------------------------- C30
\* the auth table without the record of an email
Unregistered(username) == auth_table \ RecordsOf(auth_table, username)

\* the email is registered and the password is not its password
WrongPassword(username, password) ==
    \E u \in auth_table :
        u.email = username /\ ~VerifyPassword(password, u.hashed_password)

\* C30 (login does not reveal which emails are registered): for a
\* registered email and a wrong password, login answers what it answers
\* when the email is not registered, 401 with the same detail and headers and
\* no token; and every login that was refused got that answer.
C30_LoginDoesNotReveal ==
    /\ \A username \in Emails, password \in Passwords :
          WrongPassword(username, password) =>
              /\ LoginAnswer(auth_table, username, password, FALSE)
                    = LoginAnswer(Unregistered(username), username, password,
                                  FALSE)
              /\ LoginAnswer(auth_table, username, password, FALSE).status = 401
              /\ "access_token" \notin
                    DOMAIN LoginAnswer(auth_table, username, password, FALSE)
    /\ (auth_call # None /\ auth_call.op = "login"
            /\ auth_call.answer.status # 200) =>
          auth_call.answer
              = LoginAnswer(Unregistered(auth_call.username),
                            auth_call.username, auth_call.password, FALSE)

\* a login with a wrong password on a registered email, refused
C30_Witness ==
    /\ auth_call # None
    /\ auth_call.op = "login"
    /\ WrongPassword(auth_call.username, auth_call.password)
    /\ auth_call.answer.status = 401

====
